---- MODULE Spec2Model ----
(***************************************************************************)
(* Resumable batch classification engine of the conference-talk            *)
(* grace/works classifier: the resume ledger (csv_manager), the            *)
(* classification invoker (classifier_processor), the incremental writer   *)
(* and the run loop (classifier_optimized / classifier_production).        *)
(***************************************************************************)
EXTENDS Integers, Sequences, FiniteSets, TLC

(***************************************************************************)
(* Bounds of the model.                                                    *)
(***************************************************************************)
\* number of talk files in the talks directory (file names are 1..NumFiles)
NumFiles == 3
\* config.batch_size of the runs (the program's default is 10)
BatchSize == 2
\* largest number of data rows of a table given to the resume ledger alone
MaxTableRows == 2
\* largest number of speaker names given to the name standardization
MaxNames == 4
\* largest number of rows given to write_to_csv alone
MaxWriteRows == 2

(***************************************************************************)
(* Python values.  A value is a record [t, n, s]: its type tag, its number *)
(* (int and bool; a float stands for n + 0.5) and its text (str), the text *)
(* being a sequence of tokens so that `x in y` is a sub-sequence test.     *)
(***************************************************************************)
PyInt(n) == [t |-> "int", n |-> n, s |-> <<>>]
PyBool(b) == [t |-> "bool", n |-> IF b THEN 1 ELSE 0, s |-> <<>>]
PyFloat(n) == [t |-> "float", n |-> n, s |-> <<>>]
PyStr(s) == [t |-> "str", n |-> 0, s |-> s]
PyNone == [t |-> "null", n |-> 0, s |-> <<>>]

\* isinstance(v, int): bool is a subclass of int in Python
IsInstanceInt(v) == v.t \in {"int", "bool"}

\* -3 <= v <= 3 for a number (a float n + 0.5 is in range iff -3 <= n <= 2)
InScoreRange(v) ==
    IF v.t = "float" THEN -3 <= v.n /\ v.n <= 2 ELSE -3 <= v.n /\ v.n <= 3

\* `sub in s` on str: sub occurs in s as a contiguous run
Contains(sub, s) ==
    \E i \in 0..(Len(s) - Len(sub)) :
        \A k \in 1..Len(sub) : s[i + k] = sub[k]

\* the value of a column for which the row dict has no key
Absent == [t |-> "absent", n |-> 0, s |-> <<>>]

\* str(v), as csv.DictWriter writes a cell (None is written as the empty
\* cell, and so is its restval "", taken for a key the row does not have)
Str(v) ==
    CASE v.t = "str" -> v
      [] v.t = "int" -> PyStr(<<ToString(v.n)>>)
      [] v.t = "bool" -> PyStr(<<IF v.n = 1 THEN "True" ELSE "False">>)
      [] v.t = "float" -> PyStr(<<ToString(v.n), ".5">>)
      [] OTHER -> PyStr(<<>>)

(***************************************************************************)
(* Fixed texts of the program.                                             *)
(***************************************************************************)
\* error_indicators of load_processed_talks_from_csv
ErrorParsing == <<"Error", "parsing", "LLM", "response">>
ErrorInClassification == <<"Error", "in", "classification">>
error_indicators == {ErrorParsing, ErrorInClassification}

EmptyResponseText == <<"Error", ":", "Empty", "response", "from", "API">>
ExtractionFailedText == <<"File", "content", "extraction", "failed">>
\* f"Error in classification: {str(e)}"
ErrorInClassificationWith(detail) == ErrorInClassification \o <<":">> \o detail

(***************************************************************************)
(* The external call's outcomes.  kind: "exception" (transport, auth, no   *)
(* choices), "none" (message.content is None), "badjson" (json.loads       *)
(* raises), "json_scalar" (a JSON number, true or null), "json_nondict" (a *)
(* JSON list or string, whose members are `keys`), "json_dict".            *)
(***************************************************************************)
RequiredKeys == {"score", "explanation", "key_phrases"}

\* key_phrases of a response: [t, elems]
KpStr == [t |-> "str", elems |-> <<PyStr(<<"grace">>)>>]
KpList == [t |-> "list", elems |-> <<PyStr(<<"grace">>), PyStr(<<"works">>)>>]
KpEmptyList == [t |-> "list", elems |-> <<>>]
KpIntList == [t |-> "list", elems |-> <<PyInt(1), PyStr(<<"works">>)>>]
KpDict == [t |-> "dict", elems |-> <<PyStr(<<"grace">>)>>]
KpNull == [t |-> "null", elems |-> <<>>]
KpShapes == {KpStr, KpList, KpEmptyList, KpIntList, KpDict, KpNull}

ScoreValues ==
    {PyInt(n) : n \in -4..4} \cup {PyBool(TRUE), PyBool(FALSE)}
        \cup {PyFloat(1), PyFloat(3), PyStr(<<"2">>), PyNone}

ExplanationValues ==
    {PyStr(<<"grace">>), PyStr(<<"no">> \o ErrorInClassification),
     PyStr(<<>>), PyNone}

Response(kind, keys, score, explanation, kp) ==
    [kind |-> kind, keys |-> keys, score |-> score,
     explanation |-> explanation, key_phrases |-> kp]

Responses ==
    {Response(k, {}, PyNone, PyNone, KpNull) :
        k \in {"exception", "none", "badjson", "json_scalar"}}
    \cup {Response("json_nondict", ks, PyNone, PyNone, KpNull) :
            ks \in SUBSET RequiredKeys}
    \cup {Response("json_dict", ks, sc, ex, kp) :
            ks \in SUBSET RequiredKeys, sc \in ScoreValues,
            ex \in ExplanationValues, kp \in KpShapes}

(***************************************************************************)
(* models.Classification and get_llm_classification.                       *)
(***************************************************************************)
Classification(score, explanation, key_phrases, model_used) ==
    [score |-> score, explanation |-> explanation,
     key_phrases |-> key_phrases, model_used |-> model_used]

\* the result of a block of code: a returned value or a raised exception
Return(c) == [exc |-> "none", ret |-> c]
Raise(e) ==
    [exc |-> e, ret |-> Classification(PyNone, PyNone, <<>>, "")]

ErrorParsingResult(model) ==
    Classification(PyInt(0), PyStr(ErrorParsing),
                   <<PyStr(ErrorInClassification)>>, model)

\* the key_phrases normalisation, lines 106-111
NormalizeKeyPhrases(kp) ==
    IF kp.t = "str" THEN Return(<<kp.elems[1]>>)
    ELSE IF kp.t = "list" THEN Return(kp.elems)
    ELSE IF kp.t = "dict" THEN Return(kp.elems)
    ELSE Raise("TypeError")

\* the inner try block, lines 77-118
ParseResponse(resp, model) ==
    IF resp.kind = "badjson" THEN Raise("JSONDecodeError")
    ELSE IF resp.kind = "json_scalar" THEN Raise("TypeError")
    ELSE IF ~(RequiredKeys \subseteq resp.keys)
        THEN Return(ErrorParsingResult(model))
    ELSE IF resp.kind = "json_nondict" THEN Raise("TypeError")
    ELSE IF ~IsInstanceInt(resp.score) \/ ~InScoreRange(resp.score)
        THEN Return(ErrorParsingResult(model))
    ELSE LET kp == NormalizeKeyPhrases(resp.key_phrases)
         IN  IF kp.exc # "none" THEN Raise(kp.exc)
             ELSE Return(Classification(resp.score, resp.explanation,
                                        kp.ret, model))

\* the outer try block, lines 49-128, with the inner handler of lines 120-128
CallAndParse(resp, model) ==
    IF resp.kind = "exception" THEN Raise("APIError")
    ELSE IF resp.kind = "none"
        THEN Return(Classification(PyInt(0), PyStr(EmptyResponseText),
                                   <<PyStr(ErrorInClassification)>>, model))
    ELSE LET r == ParseResponse(resp, model)
         IN  IF r.exc = "JSONDecodeError"
                 THEN Return(ErrorParsingResult(model))
                 ELSE r

\* get_llm_classification: the outer handler (lines 130-137) catches Exception
get_llm_classification(resp, model) ==
    LET r == CallAndParse(resp, model)
    IN  IF r.exc # "none"
            THEN Return(Classification(PyInt(0),
                     PyStr(ErrorInClassificationWith(<<r.exc>>)),
                     <<PyStr(ErrorInClassification)>>, model))
            ELSE r

ModelName == "o4-mini"

(***************************************************************************)
(* The result table on disk.  A file is [exists, lines]; a line holds the  *)
(* text of the cells of the columns the engine reads back: filename,       *)
(* score, explanation, key_phrases.  The header line names its columns.    *)
(***************************************************************************)
NoFile == [exists |-> FALSE, lines |-> <<>>]

Row(filename, score, explanation, key_phrases) ==
    [filename |-> filename, score |-> score, explanation |-> explanation,
     key_phrases |-> key_phrases]

fieldnames ==
    Row(<<"filename">>, <<"score">>, <<"explanation">>, <<"key_phrases">>)

\* csv.DictWriter.writerow: every cell is written as str(value)
CsvLine(row) ==
    Row(Str(row.filename).s, Str(row.score).s, Str(row.explanation).s,
        Str(row.key_phrases).s)

\* a variant of CsvLines that writes the rows of a batch last to first
RECURSIVE CsvLinesReversed(_)
CsvLinesReversed(data) ==
    IF data = <<>> THEN <<>>
    ELSE CsvLinesReversed(Tail(data)) \o <<CsvLine(Head(data))>>

RECURSIVE CsvLines(_)
CsvLines(data) ==
    IF data = <<>> THEN <<>>
    ELSE <<CsvLine(Head(data))>> \o CsvLines(Tail(data))

\* a variant of write_to_csv that opens the file in mode "w" at every call
write_truncating(data, file, write_header) ==
    IF data = <<>> THEN file
    ELSE [exists |-> TRUE,
          lines |-> (IF write_header THEN <<fieldnames>> ELSE <<>>)
                        \o CsvLines(data)]

\* a variant of write_to_csv that never writes the header
write_without_header(data, file, write_header) ==
    IF data = <<>> THEN file
    ELSE [exists |-> TRUE, lines |-> file.lines \o CsvLines(data)]

\* write_to_csv: mode "w" with the header, mode "a" without
write_to_csv(data, file, write_header) ==
    IF data = <<>> THEN file
    ELSE [exists |-> TRUE,
          lines |-> (IF write_header THEN <<fieldnames>> ELSE file.lines)
                        \o CsvLines(data)]

\* the file has st_size > 0
HasContent(file) == file.exists /\ Len(file.lines) > 0

\* csv.DictReader: the first line gives the keys, every cell is read as str;
\* row.get(column, "") of a file whose first line is not the header is ""
\* a cell a line shorter than the header does not have
MissingCell == <<"<restval>">>

\* the value csv.DictReader gives a cell: a str, or None (its restval) for
\* a cell the line does not have
ReadCell(c) == IF c = MissingCell THEN PyNone ELSE PyStr(c)

RECURSIVE ReadLines(_, _)
ReadLines(lines, keyed) ==
    IF lines = <<>> THEN <<>>
    ELSE LET l == Head(lines)
         IN  <<IF keyed
                 THEN Row(ReadCell(l.filename), ReadCell(l.score),
                          ReadCell(l.explanation), ReadCell(l.key_phrases))
                 ELSE Row(PyStr(<<>>), PyStr(<<>>), PyStr(<<>>), PyStr(<<>>))>>
             \o ReadLines(Tail(lines), keyed)

DictReader(file) ==
    IF file.lines = <<>> THEN <<>>
    ELSE ReadLines(Tail(file.lines), Head(file.lines) = fieldnames)

\* any(error_text in explanation for error_text in error_indicators)
HasErrorIndicator(explanation) ==
    \E error_text \in error_indicators : Contains(error_text, explanation)

\* a variant of IsSuccessfulRow that also takes the score 0 for an error
NonZeroScore(row) ==
    ~HasErrorIndicator(row.explanation.s) /\ row.score.s # <<"0">>

\* a variant of IsSuccessfulRow that knows the first error indicator only
OnlyParsingErrors(row) == ~Contains(ErrorParsing, row.explanation.s)

\* a variant of IsSuccessfulRow that takes the word "Error" for the test
ErrorWordFree(row) == ~Contains(<<"Error">>, row.explanation.s)

IsSuccessfulRow(row) == ~HasErrorIndicator(row.explanation.s)

\* `error_text in explanation` raises TypeError when explanation is None;
\* the handler of lines 97-99 then returns (set(), [])
ReadRaises(rows) == \E k \in 1..Len(rows) : rows[k].explanation.t # "str"

\* a variant of load_processed_talks_from_csv that keeps the rows and
\* forgets their file names
load_rows_without_names(file) ==
    IF ~file.exists THEN [processed_filenames |-> {}, successful_rows_data |-> <<>>]
    ELSE [processed_filenames |-> {},
          successful_rows_data |-> SelectSeq(DictReader(file), IsSuccessfulRow)]

\* a variant of load_processed_talks_from_csv that carries every row of the
\* table forward
load_keeping_error_rows(file) ==
    IF ~file.exists THEN [processed_filenames |-> {}, successful_rows_data |-> <<>>]
    ELSE LET kept == SelectSeq(DictReader(file), IsSuccessfulRow)
         IN  [processed_filenames |->
                  {kept[k].filename.s : k \in 1..Len(kept)},
              successful_rows_data |-> DictReader(file)]

\* load_processed_talks_from_csv: (processed_filenames, successful_rows_data)
load_processed_talks_from_csv(file) ==
    IF ~file.exists THEN [processed_filenames |-> {}, successful_rows_data |-> <<>>]
    ELSE IF ReadRaises(DictReader(file))
        THEN [processed_filenames |-> {}, successful_rows_data |-> <<>>]
    ELSE LET kept == SelectSeq(DictReader(file), IsSuccessfulRow)
         IN  [processed_filenames |->
                  {kept[k].filename.s : k \in 1..Len(kept)},
              successful_rows_data |-> kept]

(***************************************************************************)
(* The talks directory and determine_files_to_process.                     *)
(***************************************************************************)
Files == 1..NumFiles
\* Path.name of talk file f
Name(f) == <<ToString(f)>>

\* get_talk_files: the .html files of the directory, in listing order
RECURSIVE FileList(_)
FileList(n) == IF n = 0 THEN <<>> ELSE FileList(n - 1) \o <<n>>
get_talk_files == FileList(NumFiles)

\* the command line: num_talks (None or an int), file (None, a talk file or
\* 0 for a path that does not exist), generate_batch_input
NoneArg == [given |-> FALSE, v |-> 0]
IntArg(n) == [given |-> TRUE, v |-> n]
Args(num_talks, file, generate_batch_input) ==
    [num_talks |-> num_talks, file |-> file,
     generate_batch_input |-> generate_batch_input]

\* Python truthiness of an optional int
Truthy(a) == a.given /\ a.v # 0

\* a variant of Samples that draws with replacement
SamplesWithReplacement(population, k) ==
    [1..k -> {population[j] : j \in 1..Len(population)}]

\* the lists random.sample(population, k) can return
Samples(population, k) ==
    {s \in [1..k -> {population[j] : j \in 1..Len(population)}] :
        \A x, y \in 1..k : x # y => s[x] # s[y]}

\* a variant of Unprocessed that filters nothing
UnprocessedKeepsAll(all_talk_files, processed_filenames) == all_talk_files

Unprocessed(all_talk_files, processed_filenames) ==
    SelectSeq(all_talk_files, LAMBDA f : Name(f) \notin processed_filenames)

\* the outcomes of determine_files_to_process: a returned list or an exception
determine_files_to_process(args, processed_filenames, variant) ==
    IF args.file.given
    THEN IF args.file.v \in Files
         THEN IF Name(args.file.v) \notin processed_filenames
              THEN {[exc |-> "none", ret |-> <<args.file.v>>]}
              ELSE {[exc |-> "none", ret |-> <<>>]}
         ELSE IF variant = "production"
              THEN {[exc |-> "FileProcessingError", ret |-> <<>>]}
              ELSE {[exc |-> "none", ret |-> <<>>]}
    ELSE LET all_talk_files == get_talk_files
             available == Unprocessed(all_talk_files, processed_filenames)
         IN  IF Truthy(args.num_talks) /\ args.num_talks.v < Len(all_talk_files)
             THEN IF args.num_talks.v > Len(available)
                  THEN {[exc |-> "none", ret |-> available]}
                  ELSE IF args.num_talks.v < 0
                  THEN {[exc |-> "ValueError", ret |-> <<>>]}
                  ELSE {[exc |-> "none", ret |-> s] :
                           s \in Samples(available, args.num_talks.v)}
             ELSE {[exc |-> "none", ret |-> available]}

(***************************************************************************)
(* Talk files.  A file name either does not match filename_pattern, or the *)
(* file cannot be read, or it has no text, or it has text; the text's      *)
(* first 1000 characters (text_a, text_b) are what the cache key hashes.   *)
(* The directory holds files of the kinds DirKinds; a file that yields no  *)
(* content does so, at each attempt, because the read fails or because the *)
(* text is empty.                                                          *)
(***************************************************************************)
TextKinds == {"text_a", "text_b"}
FileKinds == {"noparse", "unreadable", "empty"} \cup TextKinds
DirKinds == {"noparse", "unreadable"} \cup TextKinds
Attempts(kind) == IF kind = "unreadable" THEN {"unreadable", "empty"} ELSE {kind}

\* extract_metadata_from_filename returns metadata (not None)
Parses(kind) == kind # "noparse"

NoClassification == Classification(PyNone, PyNone, <<>>, "")
EmptyCache == [h \in TextKinds |-> [present |-> FALSE, c |-> NoClassification]]

NoRow == Row(PyNone, PyNone, PyNone, PyNone)

\* the row of lines 328-340 and 345-357
ExtractionFailedRow(f) ==
    Row(PyStr(Name(f)), PyInt(0), PyStr(ExtractionFailedText), PyStr(<<>>))

\* ", ".join(key_phrases): TypeError unless every element is a str
RECURSIVE JoinTokens(_)
JoinTokens(key_phrases) ==
    IF key_phrases = <<>> THEN <<>>
    ELSE IF Len(key_phrases) = 1 THEN Head(key_phrases).s
    ELSE Head(key_phrases).s \o <<",">> \o JoinTokens(Tail(key_phrases))

Join(key_phrases) ==
    IF \E k \in 1..Len(key_phrases) : key_phrases[k].t # "str"
    THEN [exc |-> "TypeError", ret |-> PyNone]
    ELSE [exc |-> "none", ret |-> PyStr(JoinTokens(key_phrases))]

\* ClassificationCache.get: the entry of the fingerprint
cache_get(cache, content_hash) == cache[content_hash]

\* a variant of cache_set that stores nothing
cache_set_nothing(cache, content_hash, classification) == cache

\* ClassificationCache.set
cache_set(cache, content_hash, classification) ==
    [cache EXCEPT ![content_hash] = [present |-> TRUE, c |-> classification]]

\* --rate-limit: its default 0.1, counted in tenths of a second
DefaultRateLimit == 1

\* a variant of GateAndCall that sleeps before it looks at the cache
DelayBeforeCacheCheck(hit, rate_limit) ==
    (IF rate_limit > 0 THEN <<"sleep">> ELSE <<>>)
        \o (IF hit THEN <<>> ELSE <<"call">>)

\* lines 379-389: what the function does to the outside, in order: the
\* time.sleep of the rate gate and the external classification call
GateAndCall(hit, rate_limit) ==
    IF hit THEN <<>>
    ELSE (IF rate_limit > 0 THEN <<"sleep">> ELSE <<>>) \o <<"call">>

\* process_single_talk_optimized on file f of kind `kind`, the external call
\* answering resp if it is made: [exc, none, row, cache, called, events]
process_single_talk_optimized(f, kind, cache, resp, model, rate_limit) ==
    IF ~Parses(kind)
    THEN [exc |-> "none", none |-> TRUE, row |-> NoRow, cache |-> cache,
          called |-> FALSE, events |-> <<>>]
    ELSE IF kind \in {"unreadable", "empty"}
    THEN [exc |-> "none", none |-> FALSE, row |-> ExtractionFailedRow(f),
          cache |-> cache, called |-> FALSE, events |-> <<>>]
    ELSE LET content_hash == kind
             hit == cache_get(cache, content_hash).present
             classification ==
                 IF hit THEN cache_get(cache, content_hash).c
                 ELSE get_llm_classification(resp, model).ret
             cache2 ==
                 IF hit THEN cache
                 ELSE cache_set(cache, content_hash, classification)
             joined == Join(classification.key_phrases)
         IN  IF joined.exc # "none"
             THEN [exc |-> joined.exc, none |-> FALSE, row |-> NoRow,
                   cache |-> cache2, called |-> ~hit,
                   events |-> GateAndCall(hit, rate_limit)]
             ELSE [exc |-> "none", none |-> FALSE,
                   row |-> Row(PyStr(Name(f)), classification.score,
                               classification.explanation, joined.ret),
                   cache |-> cache2, called |-> ~hit,
                   events |-> GateAndCall(hit, rate_limit)]

\* lines 472-475: talk_data["score"] != 0 or "Error" not in
\* talk_data["explanation"] raises TypeError when the explanation of a
\* zero score is not a str
CountRaises(row) == row.score.n = 0 /\ row.explanation.t # "str"

\* a variant of FlushDue that flushes at the end of the work-list only
FlushAtEndOnly(taken, size, total) == taken = total

\* line 488: the batch is flushed after every batch_size-th item and after
\* the last one
FlushDue(taken, size, total) == taken % size = 0 \/ taken = total

\* a variant of should_write_header that asks for the header at every flush
header_every_flush(file) == TRUE

\* lines 490-494: should_write_header
should_write_header(file) == ~HasContent(file)

\* the responses the run loop is checked with
RespException == Response("exception", {}, PyNone, PyNone, KpNull)
RespNone == Response("none", {}, PyNone, PyNone, KpNull)
RespValid ==
    Response("json_dict", RequiredKeys, PyInt(2), PyStr(<<"grace">>), KpList)
RespIntKeyPhrases ==
    Response("json_dict", RequiredKeys, PyInt(1), PyStr(<<"grace">>), KpIntList)
LoopResponses == {RespException, RespNone, RespValid, RespIntKeyPhrases}

\* the command lines the run loop is checked with
\* neither a sampling count nor a single file nor batch generation
PlainArgs == Args(NoneArg, NoneArg, FALSE)

\* the command lines the run loop is checked with
LoopArgs == {PlainArgs}

\* the command lines determine_files_to_process is checked with
AllArgs ==
    {Args(n, NoneArg, FALSE) :
        n \in {NoneArg} \cup {IntArg(k) : k \in -1..(NumFiles + 1)}}
    \cup {Args(NoneArg, IntArg(f), FALSE) : f \in 0..NumFiles}

(***************************************************************************)
(* State.                                                                  *)
(***************************************************************************)
VARIABLES
    dir,                 \* the talks directory: the kind of each talk file
    variant,             \* "optimized" or "production": the program that runs
    batch_size,          \* config.batch_size
    resume_csv,          \* the table given as --resume-from-csv
    output_csv,          \* the output table of the current (or last) run
    run_state,           \* "not_started", "running", or how the last run ended
    args,                \* the command line of the run
    processed_filenames, \* main's processed_filenames
    files_to_process,    \* the work-list
    i,                   \* the number of work-list items the loop has taken
    all_talks_data,      \* the in-memory batch
    cache,               \* ClassificationCache._cache
    flushes,             \* history: the write_to_csv calls of the run
    api_calls,           \* history: the external calls of the run
    written_ok,          \* history: file names written with a successful row
    after_full_run,      \* history: resume_csv is the output of a plain run
                         \* that ran to completion
    produced,            \* history: the rows the items of the run produced,
                         \* each with the place of its item in the work-list
    llm_response,        \* the external call's outcome given to the invoker
    llm_result,          \* what get_llm_classification did with it
    ledger_table,        \* a table given to the resume ledger
    ledger_args,         \* a command line given with it
    ledger_result,       \* the ledger and the work-list determined from them
    name_input,          \* the names, the list that supplies them and the
                         \* similar pairs given to the name standardization
    name_result,         \* what build_name_standardization_map returned
    writer_input,        \* the rows and the file given to write_to_csv
    writer_result,       \* what write_to_csv did with them
    talk_input,          \* a talk file, a cache, the external call's outcome
                         \* and a rate limit given to
                         \* process_single_talk_optimized
    talk_result          \* what process_single_talk_optimized did with them

vars ==
    <<dir, variant, batch_size, resume_csv, output_csv, run_state, args,
      processed_filenames, files_to_process, i, all_talks_data, cache,
      flushes, api_calls, written_ok, after_full_run, produced,
      llm_response, llm_result, ledger_table, ledger_args, ledger_result,
      name_input, name_result, writer_input, writer_result, talk_input,
      talk_result>>

loop_vars ==
    <<dir, variant, batch_size, resume_csv, output_csv, run_state, args,
      processed_filenames, files_to_process, i, all_talks_data, cache,
      flushes, api_calls, written_ok, after_full_run, produced>>

pure_vars ==
    <<llm_response, llm_result, ledger_table, ledger_args, ledger_result,
      name_input, name_result, writer_input, writer_result, talk_input,
      talk_result>>

NoResult == [done |-> FALSE, exc |-> "none", ret |-> NoClassification]
NoLedger ==
    [done |-> FALSE, exc |-> "none", processed_filenames |-> {},
     successful_rows_data |-> <<>>, files_to_process |-> <<>>]

\* the run loop at rest
LoopIdle ==
    /\ dir = [f \in Files |-> "noparse"]
    /\ variant = "optimized"
    /\ batch_size = BatchSize
    /\ resume_csv = NoFile
    /\ output_csv = NoFile
    /\ run_state = "not_started"
    /\ args = PlainArgs
    /\ processed_filenames = {}
    /\ files_to_process = <<>>
    /\ i = 0
    /\ all_talks_data = <<>>
    /\ cache = EmptyCache
    /\ flushes = <<>>
    /\ api_calls = 0
    /\ written_ok = {}
    /\ after_full_run = FALSE
    /\ produced = <<>>

NoNames == [unique_names |-> {}, similar |-> {}, unique_names_list |-> <<>>]
NoNameResult ==
    [done |-> FALSE, name_map |-> <<>>, changed_in_pass |-> TRUE, passes |-> 0]

\* the name standardization at rest
NamesIdle ==
    /\ name_input = NoNames
    /\ name_result = NoNameResult

NoWrite == [data |-> <<>>, file |-> NoFile]
NoWriteResult == [done |-> FALSE, exc |-> "none", file |-> NoFile]

\* write_to_csv at rest
WriterIdle ==
    /\ writer_input = NoWrite
    /\ writer_result = NoWriteResult

NoTalk ==
    [kind |-> "noparse", cache |-> EmptyCache, resp |-> RespNone,
     rate_limit |-> 0]
NoTalkResult ==
    [done |-> FALSE, exc |-> "none", none |-> TRUE, row |-> NoRow,
     cache |-> EmptyCache, called |-> FALSE, events |-> <<>>]

\* process_single_talk_optimized at rest
TalkIdle ==
    /\ talk_input = NoTalk
    /\ talk_result = NoTalkResult

\* the pure functions at rest
PureIdle ==
    /\ llm_response = RespNone
    /\ llm_result = NoResult
    /\ ledger_table = NoFile
    /\ ledger_args = PlainArgs
    /\ ledger_result = NoLedger
    /\ NamesIdle
    /\ WriterIdle
    /\ TalkIdle

Init ==
    /\ PureIdle
    /\ dir \in [Files -> DirKinds]
    /\ variant \in {"optimized", "production"}
    /\ batch_size = BatchSize
    /\ resume_csv = NoFile
    /\ output_csv = NoFile
    /\ run_state = "not_started"
    /\ args = PlainArgs
    /\ processed_filenames = {}
    /\ files_to_process = <<>>
    /\ i = 0
    /\ all_talks_data = <<>>
    /\ cache = EmptyCache
    /\ flushes = <<>>
    /\ api_calls = 0
    /\ written_ok = {}
    /\ after_full_run = FALSE
    /\ produced = <<>>

\* one write_to_csv call, as the history records it: `at` is the number of
\* work-list items taken when the loop made it (0 for the write of main)
Flush(file, data, header, at) ==
    [header |-> header, found_empty |-> ~HasContent(file),
     lines |-> CsvLines(data), in_loop |-> at > 0, at |-> at]

\* the file names of the successful rows among data
SuccessfulNames(data) ==
    {data[k].filename.s : k \in {j \in 1..Len(data) :
        ~HasErrorIndicator(Str(data[j].explanation).s)}}

(***************************************************************************)
(* main up to the loop of process_talks_with_progress: the resume ledger   *)
(* is loaded from the latest table, the work-list is determined, the       *)
(* carry-forward rows are written to a fresh output path.                  *)
(***************************************************************************)
StartRun ==
    /\ run_state # "running"
    /\ \E a \in LoopArgs :
        LET resume == IF output_csv.exists THEN output_csv ELSE resume_csv
            loaded == load_processed_talks_from_csv(resume)
            resumed_data == loaded.successful_rows_data
        IN  \E d \in determine_files_to_process(a, loaded.processed_filenames,
                                                variant) :
            /\ resume_csv' = resume
            /\ after_full_run' =
                   (run_state = "complete" /\ args = PlainArgs
                      /\ output_csv.exists)
            /\ args' = a
            /\ processed_filenames' = loaded.processed_filenames
            /\ files_to_process' = d.ret
            /\ i' = 0
            /\ all_talks_data' = <<>>
            /\ cache' = EmptyCache
            /\ api_calls' = 0
            /\ written_ok' = written_ok
            /\ produced' = <<>>
            /\ IF d.exc # "none"
               THEN /\ output_csv' = NoFile
                    /\ flushes' = <<>>
                    /\ run_state' = "start_crash"
               ELSE /\ output_csv' = write_to_csv(resumed_data, NoFile, TRUE)
                    /\ flushes' =
                          IF resumed_data = <<>> THEN <<>>
                          ELSE <<Flush(NoFile, resumed_data, TRUE, 0)>>
                    /\ run_state' =
                          IF a.generate_batch_input THEN "batch_generated"
                          ELSE IF d.ret = <<>> /\ resumed_data = <<>>
                              THEN "nothing_to_do"
                          ELSE IF d.ret = <<>> THEN "complete"
                          ELSE "running"
    /\ UNCHANGED <<dir, variant, batch_size, pure_vars>>

(***************************************************************************)
(* One iteration of the loop of process_talks_with_progress.               *)
(***************************************************************************)
ProcessItem ==
    /\ run_state = "running"
    /\ \E resp \in LoopResponses, kind \in Attempts(dir[files_to_process[i + 1]]) :
        LET filepath == files_to_process[i + 1]
            r == process_single_talk_optimized(filepath, kind, cache, resp,
                                               ModelName, DefaultRateLimit)
            appended ==
                IF r.exc = "none" /\ ~r.none
                THEN Append(all_talks_data, r.row) ELSE all_talks_data
            raised ==
                r.exc # "none" \/ (r.exc = "none" /\ ~r.none /\ CountRaises(r.row))
            last == (i + 1 = Len(files_to_process))
            flush_now == FlushDue(i + 1, batch_size, Len(files_to_process))
            header == should_write_header(output_csv)
            ends == last \/ (raised /\ variant = "optimized")
        IN  /\ cache' = IF ends THEN EmptyCache ELSE r.cache
            /\ api_calls' = api_calls + (IF r.called THEN 1 ELSE 0)
            /\ i' = i + 1
            /\ produced' =
                   IF r.exc = "none" /\ ~r.none
                   THEN Append(produced,
                               [item |-> i + 1, line |-> CsvLine(r.row)])
                   ELSE produced
            /\ IF raised /\ variant = "optimized"
               THEN \* the exception leaves the loop and ends main
                    /\ run_state' = "item_crash"
                    /\ all_talks_data' = appended
                    /\ UNCHANGED <<output_csv, flushes, written_ok>>
               ELSE IF raised
               THEN \* production: except Exception ... continue
                    /\ run_state' = IF last THEN "complete" ELSE "running"
                    /\ all_talks_data' = appended
                    /\ UNCHANGED <<output_csv, flushes, written_ok>>
               ELSE IF flush_now /\ appended # <<>>
               THEN /\ output_csv' = write_to_csv(appended, output_csv, header)
                    /\ flushes' =
                          Append(flushes, Flush(output_csv, appended, header, i + 1))
                    /\ written_ok' = written_ok \cup SuccessfulNames(appended)
                    /\ all_talks_data' = <<>>
                    /\ run_state' = IF last THEN "complete" ELSE "running"
               ELSE /\ all_talks_data' = appended
                    /\ run_state' = IF last THEN "complete" ELSE "running"
                    /\ UNCHANGED <<output_csv, flushes, written_ok>>
    /\ UNCHANGED <<dir, variant, batch_size, resume_csv, args,
                   processed_filenames, files_to_process, after_full_run,
                   pure_vars>>

(***************************************************************************)
(* The operator interrupts the run (KeyboardInterrupt, main lines          *)
(* 577-578): what the batch holds is lost.                                 *)
(***************************************************************************)
Interrupt ==
    /\ run_state = "running"
    /\ run_state' = "interrupted"
    /\ cache' = EmptyCache
    /\ UNCHANGED <<dir, variant, batch_size, resume_csv, output_csv, args,
                   processed_filenames, files_to_process, i, all_talks_data,
                   flushes, api_calls, written_ok, after_full_run,
                   produced, pure_vars>>

\* the file that write_to_csv leaves when it is interrupted after it opened
\* the file, wrote the header or not, and wrote the rows `written`
PartlyWritten(file, written, header, wrote_header) ==
    IF written # <<>> THEN write_to_csv(written, file, header)
    ELSE IF header
    THEN [exists |-> TRUE,
          lines |-> IF wrote_header THEN <<fieldnames>> ELSE <<>>]
    ELSE file

(***************************************************************************)
(* The operator interrupts the run while the loop flushes the batch that   *)
(* the item just taken completed: write_to_csv has opened the file (mode   *)
(* "w" creates or empties it) and has written the header or not, and n of  *)
(* the rows, when the interrupt closes it.                                 *)
(***************************************************************************)
InterruptFlush ==
    /\ run_state = "running"
    /\ \E resp \in LoopResponses,
          kind \in Attempts(dir[files_to_process[i + 1]]),
          n \in 0..Len(all_talks_data), wrote_header \in BOOLEAN :
        \E r \in {process_single_talk_optimized(files_to_process[i + 1], kind,
                                                cache, resp, ModelName,
                                                DefaultRateLimit)},
           header \in {should_write_header(output_csv)} :
        \E appended \in {IF r.exc = "none" /\ ~r.none
                         THEN Append(all_talks_data, r.row)
                         ELSE all_talks_data} :
        \E written \in {SubSeq(appended, 1, n)} :
            /\ r.exc = "none"
            /\ r.none \/ ~CountRaises(r.row)
            /\ FlushDue(i + 1, batch_size, Len(files_to_process))
            /\ n < Len(appended)
            /\ wrote_header => header
            /\ (header /\ n > 0) => wrote_header
            /\ output_csv' = PartlyWritten(output_csv, written, header,
                                           wrote_header)
            /\ flushes' =
                   IF n > 0 \/ wrote_header
                   THEN Append(flushes,
                               Flush(output_csv, written, header, i + 1))
                   ELSE flushes
            /\ written_ok' = written_ok \cup SuccessfulNames(written)
            /\ all_talks_data' = appended
            /\ produced' =
                   IF ~r.none
                   THEN Append(produced,
                               [item |-> i + 1, line |-> CsvLine(r.row)])
                   ELSE produced
            /\ api_calls' = api_calls + (IF r.called THEN 1 ELSE 0)
    /\ i' = i + 1
    /\ cache' = EmptyCache
    /\ run_state' = "interrupted"
    /\ UNCHANGED <<dir, variant, batch_size, resume_csv, args,
                   processed_filenames, files_to_process, after_full_run,
                   pure_vars>>

Next == StartRun \/ ProcessItem \/ Interrupt

Spec == Init /\ [][Next]_vars

(***************************************************************************)
(* classifier_optimized with every point at which the operator can         *)
(* interrupt it: between two items and within a flush.                     *)
(***************************************************************************)
InitOptimized == Init /\ variant = "optimized"

NextOptimized == StartRun \/ ProcessItem \/ Interrupt \/ InterruptFlush

SpecOptimized == InitOptimized /\ [][NextOptimized]_vars

(***************************************************************************)
(* classifier.py: a run of its main without --resume-from-csv, --file and  *)
(* --num-talks.  Its get_llm_classification returns a dict; its loop skips *)
(* a file whose name does not parse or whose content is empty; the batch   *)
(* threshold (10 in the source) is batch_size here.                        *)
(***************************************************************************)
\* what ', '.join of line 409 iterates over: the members of a list, the
\* keys of a dict, the characters of a str (key_phrases is not normalised)
ClassifierKeyPhrases(kp) ==
    IF kp.t = "str"
    THEN <<PyStr(<<"g">>), PyStr(<<"r">>), PyStr(<<"a">>), PyStr(<<"c">>),
           PyStr(<<"e">>)>>
    ELSE kp.elems

\* classifier.py get_llm_classification, lines 99-141: the inner handler
\* catches json.JSONDecodeError only, the outer one every Exception
classifier_get_llm_classification(resp) ==
    IF resp.kind = "exception"
        THEN Classification(PyInt(0),
                 PyStr(ErrorInClassificationWith(<<"APIError">>)),
                 <<PyStr(ErrorInClassification)>>, "")
    ELSE IF resp.kind = "badjson"
        THEN Classification(PyInt(0), PyStr(ErrorParsing),
                            <<PyStr(ErrorInClassification)>>, "")
    ELSE IF resp.kind \in {"none", "json_scalar"}
        THEN Classification(PyInt(0),
                 PyStr(ErrorInClassificationWith(<<"TypeError">>)),
                 <<PyStr(ErrorInClassification)>>, "")
    ELSE IF ~(RequiredKeys \subseteq resp.keys)
        THEN Classification(PyInt(0),
                 PyStr(ErrorInClassificationWith(<<"ValueError">>)),
                 <<PyStr(ErrorInClassification)>>, "")
    ELSE IF resp.kind = "json_nondict"
        THEN Classification(PyInt(0),
                 PyStr(ErrorInClassificationWith(<<"TypeError">>)),
                 <<PyStr(ErrorInClassification)>>, "")
    ELSE IF ~IsInstanceInt(resp.score) \/ ~InScoreRange(resp.score)
        THEN Classification(PyInt(0),
                 PyStr(ErrorInClassificationWith(<<"ValueError">>)),
                 <<PyStr(ErrorInClassification)>>, "")
    ELSE Classification(resp.score, resp.explanation,
                        ClassifierKeyPhrases(resp.key_phrases), "")

\* ', '.join(classification['key_phrases']) of line 409 raises TypeError on
\* null and on a list that holds a value that is no str
ClassifierJoinRaises(resp) ==
    /\ resp.kind = "json_dict"
    /\ RequiredKeys \subseteq resp.keys
    /\ IsInstanceInt(resp.score) /\ InScoreRange(resp.score)
    /\ \/ resp.key_phrases.t = "null"
       \/ \E k \in 1..Len(resp.key_phrases.elems) :
              resp.key_phrases.elems[k].t # "str"

\* line 416: talks_processed_since_last_save >= 10 or
\* (index + 1) == total_files_to_process_count
ClassifierFlushDue(since_last_save, size, taken, total) ==
    since_last_save >= size \/ taken = total

InitClassifier ==
    /\ PureIdle
    /\ dir \in [Files -> DirKinds]
    /\ variant = "classifier"
    /\ batch_size = BatchSize
    /\ resume_csv = NoFile
    /\ output_csv = NoFile
    /\ run_state = "not_started"
    /\ args = PlainArgs
    /\ processed_filenames = {}
    /\ files_to_process = <<>>
    /\ i = 0
    /\ all_talks_data = <<>>
    /\ cache = EmptyCache
    /\ flushes = <<>>
    /\ api_calls = 0
    /\ written_ok = {}
    /\ after_full_run = FALSE
    /\ produced = <<>>

\* main up to its loop, lines 316-371: nothing to resume from, the work-list
\* is the directory listing
ClassifierStart ==
    /\ run_state = "not_started"
    /\ files_to_process' = Unprocessed(get_talk_files, {})
    /\ run_state' = IF get_talk_files = <<>> THEN "nothing_to_do" ELSE "running"
    /\ UNCHANGED <<dir, variant, batch_size, resume_csv, output_csv, args,
                   processed_filenames, i, all_talks_data, cache, flushes,
                   api_calls, written_ok, after_full_run, produced,
                   pure_vars>>

\* one iteration of the loop of main, lines 373-422.  The counter
\* talks_processed_since_last_save is the length of talk_data_batch (both
\* grow at line 412-413 and are reset at lines 421-422), and
\* is_first_csv_write_for_new_file holds until the first write creates the
\* output file.
ClassifierItem ==
    /\ run_state = "running"
    /\ variant = "classifier"
    /\ \E resp \in LoopResponses,
          kind \in Attempts(dir[files_to_process[i + 1]]) :
        \E last \in {i + 1 = Len(files_to_process)},
           is_first_csv_write_for_new_file \in {~output_csv.exists} :
        IF ~Parses(kind) \/ kind \in {"unreadable", "empty"}
        THEN \* continue
             /\ run_state' = IF last THEN "complete" ELSE "running"
             /\ UNCHANGED <<all_talks_data, output_csv, flushes, produced,
                            api_calls, written_ok>>
        ELSE IF ClassifierJoinRaises(resp)
        THEN \* the TypeError ends main
             /\ run_state' = "item_crash"
             /\ api_calls' = api_calls + 1
             /\ UNCHANGED <<all_talks_data, output_csv, flushes, produced,
                            written_ok>>
        ELSE \E classification \in {classifier_get_llm_classification(resp)} :
             \E current_talk_data \in
                    {Row(PyStr(Name(files_to_process[i + 1])),
                         classification.score, classification.explanation,
                         Join(classification.key_phrases).ret)} :
             \E talk_data_batch \in {Append(all_talks_data, current_talk_data)} :
                 /\ api_calls' = api_calls + 1
                 /\ produced' =
                        Append(produced,
                               [item |-> i + 1,
                                line |-> CsvLine(current_talk_data)])
                 /\ run_state' = IF last THEN "complete" ELSE "running"
                 /\ IF ClassifierFlushDue(Len(talk_data_batch), batch_size,
                                          i + 1, Len(files_to_process))
                    THEN /\ output_csv' =
                                write_to_csv(talk_data_batch, output_csv,
                                             is_first_csv_write_for_new_file)
                         /\ flushes' =
                                Append(flushes,
                                       Flush(output_csv, talk_data_batch,
                                             is_first_csv_write_for_new_file,
                                             i + 1))
                         /\ written_ok' =
                                written_ok \cup SuccessfulNames(talk_data_batch)
                         /\ all_talks_data' = <<>>
                    ELSE /\ all_talks_data' = talk_data_batch
                         /\ UNCHANGED <<output_csv, flushes, written_ok>>
    /\ i' = i + 1
    /\ UNCHANGED <<dir, variant, batch_size, resume_csv, args,
                   processed_filenames, files_to_process, cache,
                   after_full_run, pure_vars>>

NextClassifier == ClassifierStart \/ ClassifierItem

SpecClassifier == InitClassifier /\ [][NextClassifier]_vars

(***************************************************************************)
(* get_llm_classification alone, on every outcome of the external call.    *)
(***************************************************************************)
InitLLM ==
    /\ LoopIdle
    /\ llm_response \in Responses
    /\ llm_result = NoResult
    /\ ledger_table = NoFile
    /\ ledger_args = PlainArgs
    /\ ledger_result = NoLedger
    /\ NamesIdle
    /\ WriterIdle
    /\ TalkIdle

Classify ==
    /\ ~llm_result.done
    /\ llm_result' =
          LET r == get_llm_classification(llm_response, ModelName)
          IN  [done |-> TRUE, exc |-> r.exc, ret |-> r.ret]
    /\ UNCHANGED <<loop_vars, llm_response, ledger_table, ledger_args,
                   ledger_result, name_input, name_result, writer_input,
                   writer_result, talk_input, talk_result>>

NextLLM == Classify

SpecLLM == InitLLM /\ [][NextLLM]_vars

(***************************************************************************)
(* The resume ledger and determine_files_to_process alone, on every table  *)
(* of at most MaxTableRows rows and every command line.                    *)
(***************************************************************************)
TableExplanations ==
    {<<"grace">>, ErrorParsing, ErrorInClassificationWith(<<"APIError">>),
     ExtractionFailedText}

\* the rows of a resume table: rows of talk files, rows whose filename cell
\* is empty, and rows cut short after the score cell
TableLines ==
    {Row(n, <<"0">>, e, <<>>) :
        n \in {Name(f) : f \in Files} \cup {<<>>}, e \in TableExplanations}
    \cup {Row(Name(f), <<"0">>, MissingCell, MissingCell) : f \in Files}

Tables ==
    {NoFile} \cup
    {[exists |-> TRUE, lines |-> <<fieldnames>> \o t] :
        t \in UNION {[1..n -> TableLines] : n \in 0..MaxTableRows}}

InitLedger ==
    /\ LoopIdle
    /\ llm_response = RespNone
    /\ llm_result = NoResult
    /\ ledger_table \in Tables
    /\ ledger_args \in AllArgs
    /\ ledger_result = NoLedger
    /\ NamesIdle
    /\ WriterIdle
    /\ TalkIdle

DetermineWorkList ==
    /\ ~ledger_result.done
    /\ \E v \in {"optimized", "production"} :
        LET loaded == load_processed_talks_from_csv(ledger_table)
        IN  \E d \in determine_files_to_process(
                         ledger_args, loaded.processed_filenames, v) :
                ledger_result' =
                    [done |-> TRUE, exc |-> d.exc,
                     processed_filenames |-> loaded.processed_filenames,
                     successful_rows_data |-> loaded.successful_rows_data,
                     files_to_process |-> d.ret]
    /\ UNCHANGED <<loop_vars, llm_response, llm_result, ledger_table,
                   ledger_args, name_input, name_result, writer_input,
                   writer_result, talk_input, talk_result>>

NextLedger == DetermineWorkList

SpecLedger == InitLedger /\ [][NextLedger]_vars

(***************************************************************************)
(* clean_data.build_name_standardization_map.  A name is a number; the     *)
(* order of the numbers is the lexicographic order of the names.  similar  *)
(* is the set of the pairs <<name1, name2>>, name1 before name2, whose     *)
(* fuzz.token_sort_ratio is at least the threshold.                        *)
(***************************************************************************)
Names == 1..MaxNames

\* sorted(list(unique_names))
RECURSIVE SortedNames(_)
SortedNames(unique_names) ==
    IF unique_names = {} THEN <<>>
    ELSE LET first == CHOOSE x \in unique_names :
                          \A y \in unique_names : x <= y
         IN  <<first>> \o SortedNames(unique_names \ {first})

\* a variant of Combinations that pairs every name with the next one only
AdjacentPairs(sorted_unique_names) ==
    [k \in 1..(Len(sorted_unique_names) - 1) |->
        <<sorted_unique_names[k], sorted_unique_names[k + 1]>>]

\* itertools.combinations(sorted_unique_names, 2), in the order it yields
RECURSIVE Combinations(_)
Combinations(sorted_unique_names) ==
    IF Len(sorted_unique_names) < 2 THEN <<>>
    ELSE [k \in 1..(Len(sorted_unique_names) - 1) |->
              <<sorted_unique_names[1], sorted_unique_names[k + 1]>>]
         \o Combinations(Tail(sorted_unique_names))

\* the body of the loop over the pairs, lines 128-152
MergePair(name_map, pair, similar) ==
    IF pair \notin similar THEN name_map
    ELSE LET standard_name == IF pair[1] < pair[2] THEN pair[1] ELSE pair[2]
             variant_name == IF pair[1] < pair[2] THEN pair[2] ELSE pair[1]
             first_update ==
                 IF name_map[standard_name] # standard_name
                 THEN [name_map EXCEPT ![variant_name] = name_map[standard_name]]
                 ELSE [name_map EXCEPT ![variant_name] = standard_name]
         IN  IF first_update[variant_name] # standard_name
             THEN [first_update EXCEPT ![variant_name] = standard_name]
             ELSE first_update

\* the loop over the pairs, lines 121-152
RECURSIVE MergePairs(_, _, _)
MergePairs(name_map, pairs, similar) ==
    IF pairs = <<>> THEN name_map
    ELSE MergePairs(MergePair(name_map, Head(pairs), similar), Tail(pairs),
                    similar)

\* one pass of the closure over the sorted names, lines 161-166:
\* [name_map, changed_in_pass]
RECURSIVE ClosurePass(_, _, _)
ClosurePass(name_map, names, changed_in_pass) ==
    IF names = <<>>
    THEN [name_map |-> name_map, changed_in_pass |-> changed_in_pass]
    ELSE LET name == Head(names)
         IN  IF name_map[name] # name_map[name_map[name]]
                  /\ name_map[name] # name
             THEN ClosurePass(
                      [name_map EXCEPT ![name] = name_map[name_map[name]]],
                      Tail(names), TRUE)
             ELSE ClosurePass(name_map, Tail(names), changed_in_pass)

\* a variant of ClosureLoop that makes no pass
NoClosure(name_map, changed_in_pass, passes, sorted_unique_names) ==
    [name_map |-> name_map, changed_in_pass |-> changed_in_pass,
     passes |-> passes]

\* the while loop of lines 156-166: [name_map, changed_in_pass, passes]
RECURSIVE ClosureLoop(_, _, _, _)
ClosureLoop(name_map, changed_in_pass, passes, sorted_unique_names) ==
    IF changed_in_pass /\ passes < Len(sorted_unique_names)
    THEN LET pass == ClosurePass(name_map, sorted_unique_names, FALSE)
         IN  ClosureLoop(pass.name_map, pass.changed_in_pass, passes + 1,
                         sorted_unique_names)
    ELSE [name_map |-> name_map, changed_in_pass |-> changed_in_pass,
          passes |-> passes]

\* a variant of Sorted that takes the names in the order of the list
Unsorted(unique_names) == unique_names

\* sorted(list(unique_names)) of the list supplied
Sorted(unique_names) ==
    SortedNames({unique_names[k] : k \in 1..Len(unique_names)})

\* build_name_standardization_map of the list unique_names:
\* [name_map, changed_in_pass, passes]
build_name_standardization_map(unique_names, similar) ==
    LET sorted_unique_names == Sorted(unique_names)
        initial ==
            [name \in {unique_names[k] : k \in 1..Len(unique_names)} |-> name]
        merged == MergePairs(initial, Combinations(sorted_unique_names),
                             similar)
    IN  ClosureLoop(merged, TRUE, 0, sorted_unique_names)

\* the pairs of distinct names of a set, the first before the second
NamePairs(unique_names) ==
    {pair \in unique_names \X unique_names : pair[1] < pair[2]}

\* the lists that hold every name of a set once: the orders in which
\* list(df[COLUMN_TO_CLEAN].dropna().unique()) can supply the names
Orderings(unique_names) ==
    {p \in [1..Cardinality(unique_names) -> unique_names] :
        \A x, y \in 1..Cardinality(unique_names) : x # y => p[x] # p[y]}

InitNames ==
    /\ LoopIdle
    /\ llm_response = RespNone
    /\ llm_result = NoResult
    /\ ledger_table = NoFile
    /\ ledger_args = PlainArgs
    /\ ledger_result = NoLedger
    /\ \E u \in SUBSET Names :
           name_input \in
               {[unique_names |-> u, similar |-> sim, unique_names_list |-> p] :
                   sim \in SUBSET NamePairs(u), p \in Orderings(u)}
    /\ name_result = NoNameResult
    /\ WriterIdle
    /\ TalkIdle

Standardize ==
    /\ ~name_result.done
    /\ name_result' =
          LET r == build_name_standardization_map(
                       name_input.unique_names_list, name_input.similar)
          IN  [done |-> TRUE, name_map |-> r.name_map,
               changed_in_pass |-> r.changed_in_pass, passes |-> r.passes]
    /\ UNCHANGED <<loop_vars, llm_response, llm_result, ledger_table,
                   ledger_args, ledger_result, name_input, writer_input,
                   writer_result, talk_input, talk_result>>

NextNames == Standardize

SpecNames == InitNames /\ [][NextNames]_vars

(***************************************************************************)
(* The way of one result through a run and its resumption: the invoker     *)
(* returns a Classification for talk file 1, the loop makes its row and    *)
(* writes it to a fresh table, and the next run loads the ledger from that *)
(* table and determines its work-list.                                     *)
(***************************************************************************)
\* lines 395-408 and 466-494: the row of talk file 1 is made (the join
\* of line 406 does not raise) and the batch that holds it is flushed; in
\* classifier_optimized the TypeError of line 472 ends the run before
WriteResult ==
    /\ llm_result.done
    /\ ~ledger_table.exists
    /\ Join(llm_result.ret.key_phrases).exc = "none"
    /\ \E v \in {"optimized", "production"},
          talk_data \in {Row(PyStr(Name(1)), llm_result.ret.score,
                             llm_result.ret.explanation,
                             Join(llm_result.ret.key_phrases).ret)} :
        /\ v = "optimized" => ~CountRaises(talk_data)
        /\ ledger_table' =
               write_to_csv(<<talk_data>>, ledger_table,
                            should_write_header(ledger_table))
    /\ UNCHANGED <<loop_vars, llm_response, llm_result, ledger_args,
                   ledger_result, name_input, name_result, writer_input,
                   writer_result, talk_input, talk_result>>

\* the next run, with --resume-from-csv naming the table written
ReloadResult ==
    /\ ledger_table.exists
    /\ DetermineWorkList

InitRoundTrip == InitLLM

NextRoundTrip == Classify \/ WriteResult \/ ReloadResult

SpecRoundTrip == InitRoundTrip /\ [][NextRoundTrip]_vars

(***************************************************************************)
(* write_to_csv alone, on every list of at most MaxWriteRows row dicts: a  *)
(* row dict is [row, unknown_key], the cells of the columns it has a key   *)
(* for (Absent for a column it has no key for) and whether it holds a key  *)
(* that is no column.                                                      *)
(***************************************************************************)
WriterRows ==
    {[row |-> Row(fn, sc, ex, kp), unknown_key |-> u] :
        fn \in {PyStr(Name(1)), Absent}, sc \in {PyInt(2), Absent},
        ex \in {PyStr(<<"grace">>), Absent},
        kp \in {PyStr(<<"works">>), Absent}, u \in BOOLEAN}

\* the files write_to_csv finds: none, or a table of one row
WriterFiles ==
    {NoFile,
     [exists |-> TRUE,
      lines |-> <<fieldnames, Row(Name(2), <<"1">>, <<"grace">>, <<>>)>>]}

\* the cells of the row dicts
CellsOf(data) == [k \in 1..Len(data) |-> data[k].row]

\* csv.DictWriter._dict_to_list with extrasaction="raise": the place of the
\* first row that holds a key that is no column, 0 if there is none
FirstUnknownKey(data) ==
    IF \E k \in 1..Len(data) : data[k].unknown_key
    THEN CHOOSE k \in 1..Len(data) :
             /\ data[k].unknown_key
             /\ \A j \in 1..(k - 1) : ~data[j].unknown_key
    ELSE 0

\* write_to_csv on row dicts: [exc, file].  writerow raises ValueError on a
\* key that is no column, after the rows before it were written; a column
\* without key is written as restval
write_row_dicts(data, file, write_header) ==
    IF FirstUnknownKey(data) = 0
    THEN [exc |-> "none",
          file |-> write_to_csv(CellsOf(data), file, write_header)]
    ELSE [exc |-> "ValueError",
          file |-> PartlyWritten(
                       file,
                       SubSeq(CellsOf(data), 1, FirstUnknownKey(data) - 1),
                       write_header, write_header)]

InitWriter ==
    /\ LoopIdle
    /\ llm_response = RespNone
    /\ llm_result = NoResult
    /\ ledger_table = NoFile
    /\ ledger_args = PlainArgs
    /\ ledger_result = NoLedger
    /\ NamesIdle
    /\ writer_input \in
           {[data |-> d, file |-> f] :
               d \in UNION {[1..n -> WriterRows] : n \in 0..MaxWriteRows},
               f \in WriterFiles}
    /\ writer_result = NoWriteResult
    /\ TalkIdle

WriteRows ==
    /\ ~writer_result.done
    /\ writer_result' =
          LET r == write_row_dicts(writer_input.data, writer_input.file,
                                   should_write_header(writer_input.file))
          IN  [done |-> TRUE, exc |-> r.exc, file |-> r.file]
    /\ UNCHANGED <<loop_vars, llm_response, llm_result, ledger_table,
                   ledger_args, ledger_result, name_input, name_result,
                   writer_input, talk_input, talk_result>>

NextWriter == WriteRows

SpecWriter == InitWriter /\ [][NextWriter]_vars

(***************************************************************************)
(* process_single_talk_optimized alone, on every kind of talk file, every  *)
(* cache the run can hold, the outcomes of the external call and rate      *)
(* limits below, at and above zero.                                        *)
(***************************************************************************)
\* the results a run can have stored in the cache
CachedClassifications ==
    {get_llm_classification(resp, ModelName).ret : resp \in LoopResponses}

TalkCaches ==
    [TextKinds ->
        {[present |-> FALSE, c |-> NoClassification]}
            \cup {[present |-> TRUE, c |-> c] : c \in CachedClassifications}]

\* --rate-limit, type=float: below zero, zero, the default, above it
RateLimits == {-1, 0, DefaultRateLimit, DefaultRateLimit + 1}

InitTalk ==
    /\ LoopIdle
    /\ llm_response = RespNone
    /\ llm_result = NoResult
    /\ ledger_table = NoFile
    /\ ledger_args = PlainArgs
    /\ ledger_result = NoLedger
    /\ NamesIdle
    /\ WriterIdle
    /\ talk_input \in
           [kind : FileKinds, cache : TalkCaches, resp : LoopResponses,
            rate_limit : RateLimits]
    /\ talk_result = NoTalkResult

ProcessTalk ==
    /\ ~talk_result.done
    /\ talk_result' =
          LET r == process_single_talk_optimized(
                       1, talk_input.kind, talk_input.cache, talk_input.resp,
                       ModelName, talk_input.rate_limit)
          IN  [done |-> TRUE, exc |-> r.exc, none |-> r.none, row |-> r.row,
               cache |-> r.cache, called |-> r.called, events |-> r.events]
    /\ UNCHANGED <<loop_vars, llm_response, llm_result, ledger_table,
                   ledger_args, ledger_result, name_input, name_result,
                   writer_input, writer_result, talk_input>>

NextTalk == ProcessTalk

SpecTalk == InitTalk /\ [][NextTalk]_vars

(***************************************************************************)
(* Properties.                                                             *)
(***************************************************************************)
\* the data lines of table `file` that name talk file f without an error
\* indicator in the explanation
SuccessfulLines(file, f) ==
    {k \in 2..Len(file.lines) :
        /\ file.lines[k].filename = Name(f)
        /\ ~HasErrorIndicator(file.lines[k].explanation)}

HasSuccessfulRow(file, f) == SuccessfulLines(file, f) # {}

\* the members of a list
Members(list) == {list[k] : k \in 1..Len(list)}

\* every data line of the table has its explanation cell
EveryLineComplete(file) ==
    \A k \in 2..Len(file.lines) : file.lines[k].explanation # MissingCell

\* C1: with neither a sampling count nor a single file, the work-list is
\* exactly the discovered files whose name is not in completed_identifiers:
\* a file with a successful row in the resume table is left out, a file with
\* only error rows or with no row is in (the table being one the ledger can
\* read), and no file is listed twice.
C1_WorkListIsTheUnprocessedFiles ==
    (ledger_result.done /\ ledger_args = PlainArgs) =>
        /\ ledger_result.exc = "none"
        /\ Members(ledger_result.files_to_process) =
               {f \in Files : Name(f) \notin ledger_result.processed_filenames}
        /\ EveryLineComplete(ledger_table) =>
               Members(ledger_result.files_to_process) =
                   {f \in Files : ~HasSuccessfulRow(ledger_table, f)}
        /\ Len(ledger_result.files_to_process) =
               Cardinality(Members(ledger_result.files_to_process))

\* the resume table holds a successful row of file 1 and an error row of
\* file 2, file 3 has no row: the work-list is files 2 and 3
C1_Witness ==
    /\ ledger_result.done
    /\ ledger_args = PlainArgs
    /\ ledger_table.exists
    /\ Len(ledger_table.lines) = 3
    /\ ledger_table.lines[2] = Row(Name(1), <<"0">>, <<"grace">>, <<>>)
    /\ ledger_table.lines[3] = Row(Name(2), <<"0">>, ErrorParsing, <<>>)
    /\ ledger_result.processed_filenames = {Name(1)}
    /\ ledger_result.files_to_process = <<2, 3>>

\* the table a run resumes from, and the table the last run left
LatestTable == IF output_csv.exists THEN output_csv ELSE resume_csv

FailureTexts ==
    {ErrorParsing, EmptyResponseText, ExtractionFailedText,
     ErrorInClassificationWith(<<"APIError">>),
     ErrorInClassificationWith(<<"TypeError">>)}

\* C3: a file whose only row in the resume table is the row of a failed
\* attempt (a classification or an extraction failure) is not in
\* completed_identifiers and is in the work-list of the resumed run.
C3_FailedItemsAreRetried ==
    run_state # "not_started" =>
        \A k \in 2..Len(resume_csv.lines) :
            LET line == resume_csv.lines[k]
            IN  (/\ line.explanation \in FailureTexts
                 /\ \A j \in 2..Len(resume_csv.lines) :
                        resume_csv.lines[j].filename = line.filename =>
                            resume_csv.lines[j].explanation \in FailureTexts)
                => /\ line.filename \notin processed_filenames
                   /\ \E f \in Members(files_to_process) :
                          Name(f) = line.filename

\* no flush of the run was made by the loop
NoLoopFlush == \A k \in 1..Len(flushes) : ~flushes[k].in_loop

\* C4 as stated: a run resumed from the output of a completed run classifies
\* nothing, writes no new row and leaves a table with the same rows.
C4_RerunProcessesNothing ==
    (after_full_run /\ run_state = "complete") =>
        /\ api_calls = 0
        /\ NoLoopFlush
        /\ output_csv.lines = resume_csv.lines

\* every talk file whose name parses has a successful row in the table
AllParseableSucceeded(file) ==
    \A f \in Files : Parses(dir[f]) => HasSuccessfulRow(file, f)

\* C4 (amended): a run resumed from the output of a completed run has as
\* its work-list exactly the files without a successful row in that output;
\* when every file whose name parses has a successful row there, the run
\* makes no classification call, writes no new row and leaves a table with
\* the same rows.
C4_RerunProcessesOnlyTheUnsuccessful ==
    (after_full_run /\ run_state = "complete") =>
        /\ Members(files_to_process) =
               {f \in Files : ~HasSuccessfulRow(resume_csv, f)}
        /\ AllParseableSucceeded(resume_csv) =>
               /\ api_calls = 0
               /\ NoLoopFlush
               /\ output_csv.lines = resume_csv.lines

\* a second run over a fully successful first table of two rows or more
C4_Witness ==
    /\ after_full_run
    /\ run_state = "complete"
    /\ AllParseableSucceeded(resume_csv)
    /\ Len(resume_csv.lines) >= 3
    /\ \E f \in Files : ~Parses(dir[f])
    /\ files_to_process # <<>>
    /\ i = Len(files_to_process)
    /\ api_calls = 0
    /\ output_csv = resume_csv

\* the lines the flushes of the run wrote, in order
RECURSIVE FlushedLines(_)
FlushedLines(fl) ==
    IF fl = <<>> THEN <<>> ELSE Head(fl).lines \o FlushedLines(Tail(fl))

\* C5: the header is written exactly once, by the first flush, which is
\* the one that finds the output file missing or empty; every later flush
\* finds it non-empty and appends, so the file is the header followed by
\* the rows of all flushes in order.
C5_HeaderWrittenOnce ==
    /\ \A k \in 1..Len(flushes) :
        /\ flushes[k].header = flushes[k].found_empty
        /\ flushes[k].header <=> (k = 1)
    /\ flushes = <<>> => ~HasContent(output_csv)
    /\ flushes # <<>> =>
        /\ output_csv.exists
        /\ output_csv.lines = <<fieldnames>> \o FlushedLines(flushes)

\* two flushes of the loop: the second one appended to the first one's rows
C5_Witness ==
    /\ Len(flushes) = 2
    /\ flushes[1].in_loop
    /\ flushes[2].in_loop
    /\ flushes[1].header
    /\ ~flushes[2].header
    /\ Len(output_csv.lines) = NumFiles + 1

\* the result is one the invoker built on an error path
IsErrorResult(c) == c.key_phrases = <<PyStr(ErrorInClassification)>>

\* the response is no well-formed in-range classification: the call failed,
\* the content is missing or is not a JSON object with the three fields, or
\* the score is not a JSON integer in -3..3
IsFailure(resp) ==
    \/ resp.kind # "json_dict"
    \/ ~(RequiredKeys \subseteq resp.keys)
    \/ resp.score.t # "int"
    \/ resp.score.n < -3
    \/ resp.score.n > 3

\* C6: get_llm_classification never raises, and every failure comes back
\* as a Classification with score 0 whose explanation contains "Error
\* parsing LLM response" or "Error in classification".
C6_FailuresCarryAnErrorIndicator ==
    llm_result.done =>
        /\ llm_result.exc = "none"
        /\ IsFailure(llm_response) =>
               /\ llm_result.ret.score = PyInt(0)
               /\ llm_result.ret.explanation.t = "str"
               /\ HasErrorIndicator(llm_result.ret.explanation.s)

\* C7: every returned Classification is an error result with score 0 or
\* has an integer score in -3..3; a response whose score is not an integer
\* or is out of range is never returned as a non-error result.
C7_ScoreIsAnIntegerInRange ==
    llm_result.done =>
        /\ IsErrorResult(llm_result.ret) => llm_result.ret.score = PyInt(0)
        /\ ~IsErrorResult(llm_result.ret) =>
               /\ llm_result.ret.score.t = "int"
               /\ llm_result.ret.score.n \in -3..3
        /\ IsFailure(llm_response) => IsErrorResult(llm_result.ret)

\* the lines the loop's flushes of the run wrote
LoopLines ==
    FlushedLines(SelectSeq(flushes, LAMBDA fl : fl.in_loop))

RowsWrittenFor(f) ==
    Cardinality({k \in 1..Len(LoopLines) : LoopLines[k].filename = Name(f)})

\* C8: when a run has gone through its work-list, every item whose name
\* parses has exactly one row written by this run, and an item whose name
\* does not parse has none.
C8_OneRowPerParseableItem ==
    run_state = "complete" =>
        \A f \in Members(files_to_process) :
            RowsWrittenFor(f) = IF Parses(dir[f]) THEN 1 ELSE 0

\* C9: no failure of one item ends the run: the loop goes on to the end of
\* the work-list.
C9_NoItemFailureEndsTheRun ==
    /\ run_state # "item_crash"
    /\ run_state = "complete" => i = Len(files_to_process)

\* C10: the row of an item whose content could not be extracted has score
\* 0 and the explanation "File content extraction failed", and a run
\* resumed from a table holding it counts it as an error row: the item is
\* not in completed_identifiers and is in the work-list.
C10_ExtractionFailuresAreRetried ==
    /\ \A k \in 1..Len(all_talks_data) :
           all_talks_data[k].explanation = PyStr(ExtractionFailedText) =>
               all_talks_data[k].score = PyInt(0)
    /\ run_state # "not_started" =>
           \A k \in 2..Len(resume_csv.lines) :
               resume_csv.lines[k].explanation = ExtractionFailedText =>
                   /\ resume_csv.lines[k].score = <<"0">>
                   /\ resume_csv.lines[k].filename \notin processed_filenames
                   /\ \E f \in Members(files_to_process) :
                          Name(f) = resume_csv.lines[k].filename

\* the data lines of a table
DataLines(file) == IF file.lines = <<>> THEN <<>> ELSE Tail(file.lines)

\* the data lines of the table that have an explanation and no error
\* indicator in it, in table order
SentinelFreeLines(file) ==
    SelectSeq(DataLines(file),
              LAMBDA l : l.explanation # MissingCell
                           /\ ~HasErrorIndicator(l.explanation))

\* the lines the carry-forward rows were read from
RECURSIVE LinesOf(_)
LinesOf(rows) ==
    IF rows = <<>> THEN <<>>
    ELSE <<Row(Head(rows).filename.s, Head(rows).score.s,
               Head(rows).explanation.s, Head(rows).key_phrases.s)>>
         \o LinesOf(Tail(rows))

\* completed_identifiers is the set of filename values of the carry-forward
\* rows, and no carry-forward row holds an error indicator
LedgerNamesItsRows ==
    /\ ledger_result.processed_filenames =
           {ledger_result.successful_rows_data[k].filename.s :
               k \in 1..Len(ledger_result.successful_rows_data)}
    /\ \A k \in 1..Len(ledger_result.successful_rows_data) :
           ~HasErrorIndicator(ledger_result.successful_rows_data[k].explanation.s)

\* C11 as stated: completed_identifiers is the set of filename values of
\* the carry-forward rows, and the carry-forward rows are the rows of the
\* table without an error indicator in the explanation, in table order.
C11_LedgerIsTheSentinelFreeRows ==
    ledger_result.done =>
        /\ LedgerNamesItsRows
        /\ LinesOf(ledger_result.successful_rows_data) =
               SentinelFreeLines(ledger_table)

\* C11 (amended): completed_identifiers is the set of filename values of
\* the carry-forward rows and no row with an error indicator is among them;
\* when every row of the table has an explanation cell, the carry-forward
\* rows are the rows without an error indicator, in table order; when some
\* row is cut short before its explanation cell, the read fails and both
\* results are empty.
C11_LedgerOfAReadableTable ==
    ledger_result.done =>
        /\ LedgerNamesItsRows
        /\ EveryLineComplete(ledger_table) =>
               LinesOf(ledger_result.successful_rows_data) =
                   SentinelFreeLines(ledger_table)
        /\ ~EveryLineComplete(ledger_table) =>
               /\ ledger_result.successful_rows_data = <<>>
               /\ ledger_result.processed_filenames = {}

\* a table of a successful row and an error row, in both orders of the two
C11_Witness ==
    /\ ledger_result.done
    /\ Len(ledger_table.lines) = 3
    /\ EveryLineComplete(ledger_table)
    /\ HasErrorIndicator(ledger_table.lines[2].explanation)
    /\ ~HasErrorIndicator(ledger_table.lines[3].explanation)
    /\ ledger_table.lines[3].filename = Name(2)
    /\ ledger_result.processed_filenames = {Name(2)}
    /\ Len(ledger_result.successful_rows_data) = 1

\* C12: a row of the resume table whose filename cell is empty is not
\* among the carry-forward rows, and the empty name is never in
\* completed_identifiers.
C12_RowsWithoutFilenameAreDropped ==
    ledger_result.done =>
        /\ <<>> \notin ledger_result.processed_filenames
        /\ \A k \in 1..Len(ledger_result.successful_rows_data) :
               ledger_result.successful_rows_data[k].filename.s # <<>>

\* the files of the directory whose name is not in completed_identifiers
UnprocessedFiles ==
    {f \in Files : Name(f) \notin ledger_result.processed_filenames}

\* C13: when a sampling count N with 0 < N <= number of unprocessed files
\* is requested, determine_files_to_process returns N distinct files, every
\* one of them unprocessed.
C13_SampleOfTheUnprocessed ==
    (/\ ledger_result.done
     /\ ~ledger_args.file.given
     /\ ledger_args.num_talks.given
     /\ 0 < ledger_args.num_talks.v
     /\ ledger_args.num_talks.v <= Cardinality(UnprocessedFiles)) =>
        /\ ledger_result.exc = "none"
        /\ Len(ledger_result.files_to_process) = ledger_args.num_talks.v
        /\ Cardinality(Members(ledger_result.files_to_process)) =
               ledger_args.num_talks.v
        /\ Members(ledger_result.files_to_process) \subseteq UnprocessedFiles

\* two files sampled from a directory of which one file is completed
C13_Witness ==
    /\ ledger_result.done
    /\ ledger_args.num_talks = IntArg(NumFiles - 1)
    /\ ~ledger_args.file.given
    /\ ledger_result.processed_filenames = {Name(1)}
    /\ Len(ledger_result.files_to_process) = NumFiles - 1
    /\ ledger_result.files_to_process[1] = NumFiles

\* C14: in a resumed run with carry-forward rows, these are written first,
\* with the header, by a write of main; every later write is a flush of the
\* loop without header; the output table is the header, every successful
\* row of the resume table, then the rows of this run.
C14_CarryForwardRowsComeFirst ==
    (run_state # "not_started" /\ SentinelFreeLines(resume_csv) # <<>>) =>
        /\ flushes # <<>>
        /\ ~flushes[1].in_loop
        /\ flushes[1].header
        /\ flushes[1].lines = SentinelFreeLines(resume_csv)
        /\ \A k \in 2..Len(flushes) :
               flushes[k].in_loop /\ ~flushes[k].header
        /\ output_csv.lines =
               <<fieldnames>> \o SentinelFreeLines(resume_csv) \o LoopLines

\* two rows carried forward, then a row of this run appended
C14_Witness ==
    /\ run_state = "complete"
    /\ Len(SentinelFreeLines(resume_csv)) = 2
    /\ Len(flushes) = 2
    /\ Len(LoopLines) = 1
    /\ Len(output_csv.lines) = 4
    /\ output_csv.lines[4].filename = Name(files_to_process[1])

\* the place in the work-list of the item named `name`
Place(name) ==
    CHOOSE j \in 1..Len(files_to_process) : Name(files_to_process[j]) = name

\* C15: the items are taken one at a time in the order of the work-list,
\* and the rows the run appends to the table are in that order: of two
\* rows of this run in the table, the one of the earlier item comes first.
C15_RowsInWorkListOrder ==
    /\ \A k \in 1..Len(produced) :
        /\ produced[k].item <= i
        /\ produced[k].line.filename = Name(files_to_process[produced[k].item])
        /\ \A j \in 1..(k - 1) : produced[j].item < produced[k].item
    /\ \A q \in 1..Len(LoopLines) :
        /\ \E j \in 1..Len(files_to_process) :
               Name(files_to_process[j]) = LoopLines[q].filename
        /\ \A p \in 1..(q - 1) :
               Place(LoopLines[p].filename) < Place(LoopLines[q].filename)

\* a run over the whole directory has written the rows of all its items
C15_Witness ==
    /\ run_state = "complete"
    /\ Len(files_to_process) = NumFiles
    /\ Len(LoopLines) = NumFiles
    /\ \A q \in 1..NumFiles : LoopLines[q].filename = Name(q)

\* the least of two numbers
Min(a, b) == IF a < b THEN a ELSE b

\* the lines of the rows the items first..last of the work-list produced
ProducedLines(first, last) ==
    LET sel == SelectSeq(produced,
                         LAMBDA e : first <= e.item /\ e.item <= last)
    IN  [k \in 1..Len(sel) |-> sel[k].line]

\* C17: a run over n items that all produce a row, with batch size b and
\* no carry-forward rows, makes ceil(n/b) flushes: the k-th right after
\* item min(k*b, n), writing the rows of items (k-1)*b+1 .. min(k*b, n),
\* and only the first writes the header.
C17_FlushesOfARun ==
    LET n == Len(files_to_process)
        b == batch_size
    IN  (/\ run_state = "complete"
         /\ n > 0
         /\ Len(produced) = n
         /\ SentinelFreeLines(resume_csv) = <<>>) =>
            /\ Len(flushes) = (n + b - 1) \div b
            /\ \A k \in 1..Len(flushes) :
                /\ flushes[k].in_loop
                /\ flushes[k].at = Min(k * b, n)
                /\ flushes[k].lines =
                       ProducedLines((k - 1) * b + 1, Min(k * b, n))
                /\ flushes[k].header <=> (k = 1)

\* a work-list longer than a batch and not a multiple of it: a full batch
\* with the header, then the rest appended
C17_Witness ==
    /\ run_state = "complete"
    /\ Len(files_to_process) = BatchSize + 1
    /\ Len(produced) = BatchSize + 1
    /\ Len(flushes) = 2
    /\ flushes[1].at = BatchSize
    /\ Len(flushes[1].lines) = BatchSize
    /\ flushes[1].header
    /\ flushes[2].at = BatchSize + 1
    /\ Len(flushes[2].lines) = 1
    /\ ~flushes[2].header

\* the lines of all rows the items of the run produced, in order
AllProducedLines == [k \in 1..Len(produced) |-> produced[k].line]

\* s is a prefix of t
IsPrefix(s, t) == Len(s) <= Len(t) /\ SubSeq(t, 1, Len(s)) = s

\* the table on disk is the header, the carry-forward rows and a prefix of
\* the rows of this run, or nothing was written yet
WellFormedTable ==
    IF HasContent(output_csv)
    THEN /\ output_csv.lines =
                <<fieldnames>> \o SentinelFreeLines(resume_csv) \o LoopLines
         /\ IsPrefix(LoopLines, AllProducedLines)
    ELSE SentinelFreeLines(resume_csv) = <<>> /\ LoopLines = <<>>

Similar(x, y) ==
    <<x, y>> \in name_input.similar \/ <<y, x>> \in name_input.similar

\* the names reached from the names of `cluster` by at most `steps` similar
\* pairs
RECURSIVE Reach(_, _)
Reach(cluster, steps) ==
    IF steps = 0 THEN cluster
    ELSE Reach(cluster \cup {y \in name_input.unique_names :
                                \E x \in cluster : Similar(x, y)},
               steps - 1)

\* the similarity cluster of a name: its connected component
Cluster(x) == Reach({x}, MaxNames)

\* the first name of a set in lexicographic order
Smallest(cluster) == CHOOSE x \in cluster : \A y \in cluster : x <= y

\* C18: the map build_name_standardization_map returns is idempotent,
\* map[map[x]] = map[x] for every name x, every canonical name maps to
\* itself, and the closure loop stops at this fixed point: one more pass
\* would change nothing.
C18_MapIsIdempotent ==
    name_result.done =>
        /\ DOMAIN name_result.name_map = name_input.unique_names
        /\ \A x \in name_input.unique_names :
            /\ name_result.name_map[x] \in name_input.unique_names
            /\ name_result.name_map[name_result.name_map[x]] =
                   name_result.name_map[x]
        /\ ClosurePass(name_result.name_map,
                       SortedNames(name_input.unique_names), FALSE) =
               [name_map |-> name_result.name_map, changed_in_pass |-> FALSE]

\* a chain of three names: the closure made a pass that changed the map
\* and a pass that did not
C18_Witness ==
    /\ name_result.done
    /\ name_input.unique_names = {1, 2, 3}
    /\ name_input.similar = {<<1, 2>>, <<2, 3>>}
    /\ name_result.passes = 2
    /\ ~name_result.changed_in_pass
    /\ name_result.name_map = [x \in {1, 2, 3} |-> 1]

\* C19: every name maps to the lexicographically smallest name of its
\* similarity cluster, the connected component of the similar pairs.
C19_MapsToSmallestOfCluster ==
    name_result.done =>
        \A x \in name_input.unique_names :
            name_result.name_map[x] = Smallest(Cluster(x))

\* C20: three names A, B, C with A similar to B, B similar to C and A not
\* similar to C map to the same canonical name, in whatever lexicographic
\* order the three stand.
C20_ChainOfThreeHasOneRoot ==
    name_result.done =>
        \A a, b, c \in name_input.unique_names :
            (Similar(a, b) /\ Similar(b, c) /\ ~Similar(a, c) /\ a # c) =>
                /\ name_result.name_map[a] = name_result.name_map[b]
                /\ name_result.name_map[b] = name_result.name_map[c]

\* C21: for the same set of names and the same similar pairs,
\* build_name_standardization_map returns the same map whatever the order
\* of the list that supplies the names: the map of every list is the map
\* of the sorted list.
C21_MapIgnoresTheOrderOfTheList ==
    name_result.done =>
        name_result.name_map =
            build_name_standardization_map(
                SortedNames(name_input.unique_names),
                name_input.similar).name_map

\* three names supplied last to first, the last similar to both others:
\* the map is the one of the sorted list
C21_Witness ==
    /\ name_result.done
    /\ name_input.unique_names_list = <<3, 2, 1>>
    /\ name_input.similar = {<<1, 3>>, <<2, 3>>}
    /\ name_result.name_map = (1 :> 1 @@ 2 :> 2 @@ 3 :> 2)

\* the canonical names of the map returned: the names that map to themselves
Canonical ==
    {x \in name_input.unique_names : name_result.name_map[x] = x}

\* C30: no two distinct canonical names of the map returned are similar,
\* and the map built over the canonical names alone is the identity.
C30_CanonicalNamesAreDissimilar ==
    name_result.done =>
        /\ \A x, y \in Canonical : x # y => ~Similar(x, y)
        /\ build_name_standardization_map(
               SortedNames(Canonical),
               name_input.similar \cap NamePairs(Canonical)).name_map =
                   [x \in Canonical |-> x]

\* four names of which the third is similar to the first two: three
\* canonical names are left
C30_Witness ==
    /\ name_result.done
    /\ name_input.unique_names = {1, 2, 3, 4}
    /\ name_input.similar = {<<1, 3>>, <<2, 3>>}
    /\ Canonical = {1, 2, 4}

\* the row dict has a key for each of the columns
HasEveryColumn(rowdict) ==
    /\ rowdict.row.filename # Absent
    /\ rowdict.row.score # Absent
    /\ rowdict.row.explanation # Absent
    /\ rowdict.row.key_phrases # Absent

\* C22: write_to_csv raises on a row that lacks a column and does not
\* write it with the column padded: when some row given lacks a column the
\* call raises and the file gains no line of that row.
C22_MissingColumnIsAnError ==
    writer_result.done =>
        \A k \in 1..Len(writer_input.data) :
            ~HasEveryColumn(writer_input.data[k]) =>
                /\ writer_result.exc # "none"
                /\ \A j \in 1..Len(writer_result.file.lines) :
                       writer_result.file.lines[j] #
                           CsvLine(writer_input.data[k].row)

\* the content of the talk was extracted and its fingerprint is in the cache
IsCacheHit ==
    /\ talk_input.kind \in TextKinds
    /\ talk_input.cache[talk_input.kind].present

\* the content of the talk was extracted and its fingerprint is not in the
\* cache
IsCacheMiss ==
    /\ talk_input.kind \in TextKinds
    /\ ~talk_input.cache[talk_input.kind].present

\* C23: in process_single_talk_optimized a cache miss makes one external
\* call, and with rate_limit > 0 the delay comes right before it; a cache
\* hit makes neither the delay nor a call; there is no delay without a call
\* after it.
C23_DelayBeforeEveryCallOnAMiss ==
    talk_result.done =>
        /\ IsCacheHit => talk_result.events = <<>> /\ ~talk_result.called
        /\ IsCacheMiss =>
               /\ talk_result.called
               /\ talk_result.events =
                      IF talk_input.rate_limit > 0
                      THEN <<"sleep", "call">> ELSE <<"call">>
        /\ \A k \in 1..Len(talk_result.events) :
               /\ (talk_result.events[k] = "call" /\ talk_input.rate_limit > 0)
                      => (k > 1 /\ talk_result.events[k - 1] = "sleep")
               /\ talk_result.events[k] = "sleep" =>
                      (/\ k < Len(talk_result.events)
                       /\ talk_result.events[k + 1] = "call")

\* a talk whose fingerprint is in the cache, under the default rate limit:
\* the stored result is used, nothing is done to the outside
C23_Witness ==
    /\ talk_result.done
    /\ IsCacheHit
    /\ talk_input.rate_limit = DefaultRateLimit
    /\ talk_result.events = <<>>
    /\ talk_result.row.score = talk_input.cache[talk_input.kind].c.score
    /\ \E h \in TextKinds : ~talk_input.cache[h].present

\* C24: when process_talks_with_progress of classifier_production has
\* gone through the work-list, the in-memory batch is empty and every row
\* the items of the run produced is in the table, whichever items raised
\* an exception that the loop caught.
C24_ProductionWritesEveryRow ==
    (variant = "production" /\ run_state = "complete") =>
        /\ all_talks_data = <<>>
        /\ LoopLines = AllProducedLines

\* C25: when the loop of main of classifier.py has gone through the
\* work-list, talk_data_batch is empty and every row the items of the run
\* produced is in the output table, also when the last file was skipped.
C25_ClassifierWritesEveryRow ==
    (variant = "classifier" /\ run_state = "complete") =>
        /\ all_talks_data = <<>>
        /\ LoopLines = AllProducedLines

\* the fingerprints of the contents of the items the loop has taken
FingerprintsTaken ==
    {dir[files_to_process[k]] : k \in 1..i} \cap TextKinds

\* the row of talk file f made from the classification c
RowFrom(f, c) ==
    Row(PyStr(Name(f)), c.score, c.explanation, Join(c.key_phrases).ret)

\* the step takes an item whose fingerprint is in the cache: it makes no
\* call, and the row it produces (if the join does not raise) holds the
\* stored Classification
HitUsesTheStoredResult ==
    LET f == files_to_process[i + 1]
        stored == cache[dir[f]]
    IN  (/\ run_state = "running"
         /\ i' = i + 1
         /\ dir[f] \in TextKinds
         /\ stored.present) =>
            /\ api_calls' = api_calls
            /\ Join(stored.c.key_phrases).exc = "none" =>
                   produced' =
                       Append(produced,
                              [item |-> i + 1,
                               line |-> CsvLine(RowFrom(f, stored.c))])

\* C26: within one run the external service is called once per distinct
\* content fingerprint of the items taken; an item whose fingerprint was
\* classified before gets the stored Classification without a call, an
\* error sentinel result included.
C26_OneCallPerFingerprint ==
    /\ [](run_state \in {"running", "complete", "item_crash", "interrupted"}
            => api_calls = Cardinality(FingerprintsTaken))
    /\ [][HitUsesTheStoredResult]_vars

\* two items of the same fingerprint, the call for the first failed: one
\* call was made and both rows hold the error sentinel result
C26_Witness ==
    /\ run_state = "running"
    /\ i = 2
    /\ dir[files_to_process[1]] = dir[files_to_process[2]]
    /\ dir[files_to_process[1]] \in TextKinds
    /\ api_calls = 1
    /\ Len(produced) = 2
    /\ HasErrorIndicator(produced[1].line.explanation)
    /\ produced[2].line.explanation = produced[1].line.explanation
    /\ cache[dir[files_to_process[1]]].present

\* C27: when a sampling count N >= 0 is given (and no single file),
\* determine_files_to_process returns at most N files.
C27_AtMostTheCountRequested ==
    (/\ ledger_result.done
     /\ ~ledger_args.file.given
     /\ ledger_args.num_talks.given
     /\ ledger_args.num_talks.v >= 0) =>
        /\ ledger_result.exc = "none"
        /\ Len(ledger_result.files_to_process) <= ledger_args.num_talks.v

\* the table has at most one row without error indicator per file name
AtMostOneSuccessPerName(file) ==
    \A k, j \in 2..Len(file.lines) :
        (/\ file.lines[k].filename = file.lines[j].filename
         /\ ~HasErrorIndicator(file.lines[k].explanation)
         /\ ~HasErrorIndicator(file.lines[j].explanation)) => k = j

\* the rows main copied from the resume table into the output
CopiedLines ==
    FlushedLines(SelectSeq(flushes, LAMBDA fl : ~fl.in_loop))

\* C28: when the resume table has at most one successful row per file
\* name, the output table has at most one row per file name, success and
\* error rows together, and no row with an error indicator was copied
\* from the resume table.
C28_OneRowPerNameInTheOutput ==
    (run_state # "not_started" /\ AtMostOneSuccessPerName(resume_csv)) =>
        /\ \A k, j \in 2..Len(output_csv.lines) :
               output_csv.lines[k].filename = output_csv.lines[j].filename
                   => k = j
        /\ \A k \in 1..Len(CopiedLines) :
               ~HasErrorIndicator(CopiedLines[k].explanation)

\* a run resumed from a table with an error row of a file has gone through
\* its work-list: the output holds one row of that file, the new one
C28_Witness ==
    /\ run_state = "complete"
    /\ \E k \in 2..Len(resume_csv.lines) :
        /\ HasErrorIndicator(resume_csv.lines[k].explanation)
        /\ \E j \in 1..Len(LoopLines) :
               LoopLines[j].filename = resume_csv.lines[k].filename
        /\ Cardinality({j \in 2..Len(output_csv.lines) :
               output_csv.lines[j].filename = resume_csv.lines[k].filename}) = 1
    /\ CopiedLines # <<>>

\* the invoker returned a valid classification: the response was well
\* formed with an integer score in -3..3 and the result is no error result
ReturnedValid ==
    /\ llm_result.done
    /\ ~IsFailure(llm_response)
    /\ ~IsErrorResult(llm_result.ret)

\* talk file 1 is in completed_identifiers and not in the work-list
CountedSuccessful ==
    /\ Name(1) \in ledger_result.processed_filenames
    /\ 1 \notin Members(ledger_result.files_to_process)

\* C29 as stated: a valid classification, once written and reloaded, is
\* counted as successful whatever its explanation, and its item is not in
\* the work-list of the resumed run.
C29_ValidResultIsNeverRetried ==
    (ledger_result.done /\ ReturnedValid) => CountedSuccessful

\* C29 (amended): a valid classification, once written and reloaded, is
\* counted as successful and its item left out of the work-list exactly
\* when its explanation holds none of the error indicators; when it holds
\* one, the item is not in completed_identifiers and is in the work-list.
C29_ValidResultIsJudgedByItsExplanation ==
    (ledger_result.done /\ ReturnedValid) =>
        IF HasErrorIndicator(Str(llm_result.ret.explanation).s)
        THEN /\ Name(1) \notin ledger_result.processed_filenames
             /\ 1 \in Members(ledger_result.files_to_process)
        ELSE CountedSuccessful

\* a valid classification with score 0 and an explanation without error
\* indicator was written and reloaded: its item is left out of the work-list
C29_Witness ==
    /\ ledger_result.done
    /\ ReturnedValid
    /\ llm_result.ret.score = PyInt(0)
    /\ llm_result.ret.explanation = PyStr(<<"grace">>)
    /\ Len(ledger_table.lines) = 2
    /\ ledger_result.files_to_process = <<2, 3>>

====
